---- MODULE Spec2Model ----
(***************************************************************************)
(* Model of test-aci-auth-server: the HTTP handler (ServeHTTP), the        *)
(* artifact build (prepareACI and its helpers), and the process main loop  *)
(* (startServer / loop) that prints diagnostics and waits for shutdown.    *)
(*                                                                         *)
(* Go strings are modelled as sequences of one-character strings, so that  *)
(* strings.Split, filepath.Base and base64 decoding are computed the way   *)
(* the code computes them.                                                 *)
(***************************************************************************)
EXTENDS Integers, Sequences, FiniteSets, TLC

(***************************************************************************)
(* Bounds of the model.                                                    *)
(***************************************************************************)
\* number of requests (handler goroutines) in one run of the server
NReq == 2
\* number of space-separated tokens in a generated Authorization header
MaxTokens == 2

(***************************************************************************)
(* HTTP status codes used by ServeHTTP and getAuthPayload.                 *)
(***************************************************************************)
StatusOK == 200
StatusBadRequest == 400
StatusUnauthorized == 401
StatusNotFound == 404
StatusMethodNotAllowed == 405
StatusInternalServerError == 500

(***************************************************************************)
(* String literals.                                                        *)
(***************************************************************************)
sBasic == <<"B", "a", "s", "i", "c">>
sBearer == <<"B", "e", "a", "r", "e", "r">>
sBar == <<"b", "a", "r">>
sBaz == <<"b", "a", "z">>
sSometoken == <<"s", "o", "m", "e", "t", "o", "k", "e", "n">>
sWrongtoken == <<"w", "r", "o", "n", "g", "t", "o", "k", "e", "n">>
sProgAci == <<"p", "r", "o", "g", ".", "a", "c", "i">>
\* base64 texts used as request inputs
b64BarBaz == <<"Y", "m", "F", "y", "O", "m", "J", "h", "e", "g", "=", "=">>
b64BarBazLoose == <<"Y", "m", "F", "y", "O", "m", "J", "h", "e", "h", "=", "=">>
b64BarBazNoPad == <<"Y", "m", "F", "y", "O", "m", "J", "h", "e", "g">>
b64BarWrong == <<"Y", "m", "F", "y", "O", "n", "d", "y", "b", "2", "5", "n">>
b64BazBar == <<"Y", "m", "F", "6", "O", "m", "J", "h", "c", "g", "=", "=">>
b64Bar == <<"Y", "m", "F", "y">>
b64ABC == <<"Y", "T", "p", "i", "O", "m", "M", "=">>
sNotB64 == <<"b", "a", "r", ":", "b", "a", "z", "!">>

\* strings.Split(s, sep) for a one-character separator: the fields between
\* the separators, empty fields included; always at least one field.
RECURSIVE SplitFrom(_, _, _, _)
SplitFrom(s, sep, i, cur) ==
    IF i > Len(s) THEN <<cur>>
    ELSE IF s[i] = sep THEN <<cur>> \o SplitFrom(s, sep, i + 1, <<>>)
    ELSE SplitFrom(s, sep, i + 1, Append(cur, s[i]))

Split(s, sep) == SplitFrom(s, sep, 1, <<>>)

\* strings.Join(parts, sep)
RECURSIVE Join(_, _)
Join(parts, sep) ==
    IF Len(parts) = 0 THEN <<>>
    ELSE IF Len(parts) = 1 THEN parts[1]
    ELSE parts[1] \o <<sep>> \o Join(Tail(parts), sep)

\* filepath.Base: strip trailing slashes, keep what follows the last slash;
\* "." for the empty path and "/" for a path of slashes only.
RECURSIVE StripTrailingSlashes(_)
StripTrailingSlashes(p) ==
    IF Len(p) > 0 /\ p[Len(p)] = "/"
    THEN StripTrailingSlashes(SubSeq(p, 1, Len(p) - 1))
    ELSE p

Base(path) ==
    IF Len(path) = 0 THEN <<".">>
    ELSE LET p == StripTrailingSlashes(path)
             parts == Split(p, "/")
         IN  IF Len(p) = 0 THEN <<"/">> ELSE parts[Len(parts)]

(***************************************************************************)
(* base64.StdEncoding.DecodeString: standard alphabet, '=' padding         *)
(* required, trailing bits of the last quantum not checked.  (The decoder  *)
(* also skips CR and LF, which a header value cannot contain.)             *)
(***************************************************************************)
encodeStd ==
    <<"A", "B", "C", "D", "E", "F", "G", "H", "I", "J", "K", "L", "M",
      "N", "O", "P", "Q", "R", "S", "T", "U", "V", "W", "X", "Y", "Z",
      "a", "b", "c", "d", "e", "f", "g", "h", "i", "j", "k", "l", "m",
      "n", "o", "p", "q", "r", "s", "t", "u", "v", "w", "x", "y", "z",
      "0", "1", "2", "3", "4", "5", "6", "7", "8", "9", "+", "/">>

\* printable ASCII, code 32 first (the backquote, which the TLA+ lexer does not
\* accept in a string, is written as its escape)
asciiPrintable ==
    <<" ", "!", "\"", "#", "$", "%", "&", "'", "(", ")", "*", "+", ",",
      "-", ".", "/", "0", "1", "2", "3", "4", "5", "6", "7", "8", "9",
      ":", ";", "<", "=", ">", "?", "@",
      "A", "B", "C", "D", "E", "F", "G", "H", "I", "J", "K", "L", "M",
      "N", "O", "P", "Q", "R", "S", "T", "U", "V", "W", "X", "Y", "Z",
      "[", "\\", "]", "^", "_", "\\x96",
      "a", "b", "c", "d", "e", "f", "g", "h", "i", "j", "k", "l", "m",
      "n", "o", "p", "q", "r", "s", "t", "u", "v", "w", "x", "y", "z",
      "{", "|", "}", "~">>

IsB64Char(c) == \E i \in 1..Len(encodeStd) : encodeStd[i] = c

decodeMap(c) == (CHOOSE i \in 1..Len(encodeStd) : encodeStd[i] = c) - 1

\* string(byte): the character of a byte; a byte outside printable ASCII is
\* written as an escape, which no character of a literal equals.
Chr(b) ==
    IF b - 31 \in 1..Len(asciiPrintable) THEN asciiPrintable[b - 31]
    ELSE "\\x" \o ToString(b)

\* the bytes of one quantum of n significant characters (n in 2..4)
Quantum(q, n) ==
    LET v == decodeMap(q[1]) * 262144 + decodeMap(q[2]) * 4096
             + (IF n >= 3 THEN decodeMap(q[3]) * 64 ELSE 0)
             + (IF n >= 4 THEN decodeMap(q[4]) ELSE 0)
        b == << v \div 65536, (v \div 256) % 256, v % 256 >>
    IN  [i \in 1..(n - 1) |-> Chr(b[i])]

RECURSIVE DecodeString(_)
DecodeString(s) ==
    IF Len(s) = 0 THEN [ok |-> TRUE, out |-> <<>>]
    ELSE IF Len(s) < 4 THEN [ok |-> FALSE, out |-> <<>>]
    ELSE LET q == SubSeq(s, 1, 4)
             rest == SubSeq(s, 5, Len(s))
         IN  IF \A i \in 1..4 : IsB64Char(q[i])
             THEN LET r == DecodeString(rest)
                  IN  [ok |-> r.ok, out |-> IF r.ok THEN Quantum(q, 4) \o r.out ELSE <<>>]
             ELSE IF /\ IsB64Char(q[1]) /\ IsB64Char(q[2]) /\ IsB64Char(q[3])
                     /\ q[4] = "=" /\ Len(rest) = 0
             THEN [ok |-> TRUE, out |-> Quantum(q, 3)]
             ELSE IF /\ IsB64Char(q[1]) /\ IsB64Char(q[2])
                     /\ q[3] = "=" /\ q[4] = "=" /\ Len(rest) = 0
             THEN [ok |-> TRUE, out |-> Quantum(q, 2)]
             ELSE [ok |-> FALSE, out |-> <<>>]

(***************************************************************************)
(* getAuthPayload: the Authorization header ("" when absent) against the   *)
(* expected scheme.  code = 0 stands for a nil error.                      *)
(***************************************************************************)
\* a variant without the check of the number of tokens
getAuthPayloadNoCount(hdr, authType) ==
    LET parts == Split(hdr, " ")
    IN  IF hdr = <<>>
        THEN [code |-> StatusUnauthorized, message |-> "No auth", payload |-> <<>>]
        ELSE IF parts[1] /= authType
        THEN [code |-> StatusUnauthorized, message |-> "Wrong auth", payload |-> <<>>]
        ELSE [code |-> 0, message |-> "",
              payload |-> IF Len(parts) >= 2 THEN parts[2] ELSE <<>>]

getAuthPayload(hdr, authType) ==
    LET parts == Split(hdr, " ")
    IN  IF hdr = <<>>
        THEN [code |-> StatusUnauthorized, message |-> "No auth", payload |-> <<>>]
        ELSE IF Len(parts) /= 2
        THEN [code |-> StatusBadRequest, message |-> "Malformed auth", payload |-> <<>>]
        ELSE IF parts[1] /= authType
        THEN [code |-> StatusUnauthorized, message |-> "Wrong auth", payload |-> <<>>]
        ELSE [code |-> 0, message |-> "", payload |-> parts[2]]

(***************************************************************************)
(* The credential switch of ServeHTTP (case "none" / "basic" / "oauth"):   *)
(* code = 0 when the request passes, else the status written and the       *)
(* diagnostic sent before the handler returns.                             *)
(***************************************************************************)
Pass == [code |-> 0, msg |-> ""]

basicAuth(hdr) ==
    LET p == getAuthPayload(hdr, sBasic)
        d == DecodeString(p.payload)
        parts == Split(d.out, ":")
    IN  IF p.code /= 0
        THEN [code |-> p.code, msg |-> "No Authorization header: " \o p.message]
        ELSE IF ~d.ok
        THEN [code |-> StatusBadRequest, msg |-> "Badly formed Authorization header"]
        ELSE IF Len(parts) /= 2
        THEN [code |-> StatusBadRequest, msg |-> "Badly formed Authorization header (2)"]
        ELSE IF parts[1] /= sBar \/ parts[2] /= sBaz
        THEN [code |-> StatusUnauthorized, msg |-> "Bad credentials"]
        ELSE Pass

\* a variant that accepts any bearer token
oauthAuthAnyToken(hdr) ==
    LET p == getAuthPayload(hdr, sBearer)
    IN  IF p.code /= 0
        THEN [code |-> p.code, msg |-> "No Authorization header: " \o p.message]
        ELSE Pass

oauthAuth(hdr) ==
    LET p == getAuthPayload(hdr, sBearer)
    IN  IF p.code /= 0
        THEN [code |-> p.code, msg |-> "No Authorization header: " \o p.message]
        ELSE IF p.payload /= sSometoken
        THEN [code |-> StatusUnauthorized, msg |-> "Bad token"]
        ELSE Pass

\* a credential switch that applies the basic check in mode none too
checkAuthNoneChecked(mode, hdr) ==
    CASE mode = "oauth" -> oauthAuth(hdr)
      [] OTHER -> basicAuth(hdr)

checkAuth(mode, hdr) ==
    CASE mode = "none" -> Pass
      [] mode = "basic" -> basicAuth(hdr)
      [] mode = "oauth" -> oauthAuth(hdr)

(***************************************************************************)
(* Request inputs.                                                         *)
(***************************************************************************)
Methods == {"GET", "POST", "PUT"}
AuthModes == {"none", "basic", "oauth"}

hdrNone == <<>>
hdrBasicOK == Join(<<sBasic, b64BarBaz>>, " ")
hdrBearerOK == Join(<<sBearer, sSometoken>>, " ")
pathProg == <<"/", "x", "/", "p", "r", "o", "g", ".", "a", "c", "i">>
pathOther == <<"/", "x", "/", "o", "t", "h", "e", "r">>

\* inputs of the runs with concurrent requests
Paths == {pathProg, pathOther}

\* inputs of the runs that exercise the credential check on one request
Tokens ==
    {sBasic, sBearer, sSometoken, sWrongtoken, b64BarBaz, b64BarBazLoose,
     b64BarBazNoPad, b64BarWrong, b64BazBar, b64Bar, b64ABC, sNotB64, <<>>}
TokenSeqs == UNION {[1..n -> Tokens] : n \in 1..MaxTokens}
AuthHeaders == {hdrNone} \cup {Join(ts, " ") : ts \in TokenSeqs}
AuthPaths ==
    {pathProg, pathOther,
     <<"/", "p", "r", "o", "g", ".", "a", "c", "i">>,
     <<"/", "x", "/", "p", "r", "o", "g", ".", "a", "c", "i", "/">>,
     <<"/", "p", "r", "o", "g", ".", "a", "c", "i", "/", "y">>,
     <<"/", "x", "/", "p", "r", "o", "g", ".", "a", "c", "i", "x">>,
     <<"/">>}

(***************************************************************************)
(* State.                                                                  *)
(***************************************************************************)
VARIABLES
    auth,        \* serverHandler.auth, fixed at start
    conn,        \* per request: the handler goroutine (inputs, position, response)
    mainPc,      \* position of the main goroutine (startServer / loop)
    listener,    \* TRUE while the test server's listener is open
    closeCount,  \* number of times the listener has been closed
    stopRecv,    \* number of values received from the stop channel
    stdout,      \* lines printed by the process, in order
    fs,          \* the files and directories of the working directory
    clock,       \* time.Now()
    exitCode     \* -1 while the process runs

vars == <<auth, conn, mainPc, listener, closeCount, stopRecv, stdout, fs, clock, exitCode>>

Reqs == 1..NReq

aciDir == "ACI"
rootDir == "ACI/rootfs"
manifestFile == "ACI/manifest"
srcFile == "ACI/rootfs/prog.go"
progFile == "ACI/rootfs/prog"
stampFile == "ACI/rootfs/stamp"
fnACI == "prog-build.aci"
TreePaths == {aciDir, rootDir, manifestFile, srcFile, progFile, stampFile}

Exists(p) == p \in DOMAIN fs
\* the file system with path p created or overwritten
WithFile(f, p, c) == [q \in DOMAIN f \cup {p} |-> IF q = p THEN c ELSE f[q]]
\* os.Remove / os.RemoveAll of a set of paths
Without(f, ps) == [q \in DOMAIN f \ ps |-> f[q]]

idle ==
    [pc |-> "idle", method |-> "", path |-> <<>>, hdr |-> <<>>, code |-> 0,
     body |-> <<>>, msg |-> "", dir |-> "", fn |-> "", err |-> "",
     data |-> <<>>, fault |-> FALSE]

MsgSendPcs == {"sendReject", "sendTrying", "sendServing", "sendNotFound", "sendFailed", "sendDone"}
BuildPcs ==
    {"mkdirACI", "mkdirRootfs", "writeManifest", "writeSrc", "buildProg",
     "writeStamp", "actool", "readFile", "deferRemove", "deferRemoveAll"}
InFlight(r) == conn[r].pc \notin {"idle", "done"}

\* Inputs of the runs with concurrent requests: a GET for either path, with no
\* Authorization header or with the credentials the server was started with
\* (a Basic header in mode none), a POST and a PUT.
Headers == {hdrNone, IF auth = "oauth" THEN hdrBearerOK ELSE hdrBasicOK}
Inputs ==
    {[m |-> "GET", p |-> p, h |-> h] : p \in Paths, h \in Headers}
    \cup {[m |-> m, p |-> pathProg, h |-> hdrNone] : m \in {"POST", "PUT"}}
\* Inputs of the runs with one request: every method, path and generated header.
AuthInputs == {[m |-> m, p |-> p, h |-> h] : m \in Methods, p \in AuthPaths, h \in AuthHeaders}

Init ==
    /\ auth \in AuthModes
    /\ conn = [r \in Reqs |-> idle]
    /\ mainPc = "print"
    /\ listener = TRUE
    /\ closeCount = 0
    /\ stopRecv = 0
    /\ stdout = <<>>
    /\ fs = <<>>
    /\ clock = 0
    /\ exitCode = -1

(***************************************************************************)
(* ServeHTTP, from its entry to its first channel operation (or return).   *)
(***************************************************************************)
\* the GET branch: the credential switch, then the first diagnostic
serveGET(mode, m, p, h) ==
    LET a == checkAuth(mode, h)
        c == [idle EXCEPT !.method = m, !.path = p, !.hdr = h]
    IN  IF a.code /= 0
        THEN [c EXCEPT !.code = a.code, !.msg = a.msg, !.pc = "sendReject"]
        ELSE [c EXCEPT !.msg = "Trying to serve", !.pc = "sendTrying"]

\* a handler without the method switch: every request is served as a GET
serveAnyMethod(mode, m, p, h) == serveGET(mode, m, p, h)

\* a handler that checks the credentials of a POST before signalling
servePostChecked(mode, m, p, h) ==
    LET c == [idle EXCEPT !.method = m, !.path = p, !.hdr = h]
    IN  IF m = "POST" /\ checkAuth(mode, h).code = 0
        THEN [c EXCEPT !.code = StatusOK, !.pc = "sendStop"]
        ELSE IF m = "POST"
        THEN [c EXCEPT !.code = checkAuth(mode, h).code, !.msg = checkAuth(mode, h).msg,
                       !.pc = "sendReject"]
        ELSE IF m /= "GET"
        THEN [c EXCEPT !.code = StatusMethodNotAllowed, !.pc = "done"]
        ELSE serveGET(mode, m, p, h)

\* a handler whose method switch sends every non-GET method to the POST case
serveNoDefault(mode, m, p, h) ==
    LET c == [idle EXCEPT !.method = m, !.path = p, !.hdr = h]
    IN  IF m /= "GET"
        THEN [c EXCEPT !.code = StatusOK, !.pc = "sendStop"]
        ELSE serveGET(mode, m, p, h)

serve(mode, m, p, h) ==
    LET c == [idle EXCEPT !.method = m, !.path = p, !.hdr = h]
    IN  IF m = "POST"
        THEN [c EXCEPT !.code = StatusOK, !.pc = "sendStop"]
        ELSE IF m /= "GET"
        THEN [c EXCEPT !.code = StatusMethodNotAllowed, !.pc = "done"]
        ELSE serveGET(mode, m, p, h)

\* a request is accepted while the listener is open; requests are numbered in
\* the order in which their handlers start
ServeHTTP(r, inputs) ==
    /\ listener
    /\ conn[r].pc = "idle"
    /\ \A q \in Reqs : q < r => conn[q].pc /= "idle"
    /\ \E in \in inputs :
          conn' = [conn EXCEPT ![r] = serve(auth, in.m, in.p, in.h)]
    /\ UNCHANGED <<auth, mainPc, listener, closeCount, stopRecv, stdout, fs, clock, exitCode>>

(***************************************************************************)
(* What the handler does after a send on h.msg has completed, up to its    *)
(* next blocking operation.                                                *)
(***************************************************************************)
\* a variant that serves the artifact whatever the path
afterSendAlwaysServe(c) ==
    CASE c.pc = "sendTrying" -> [c EXCEPT !.msg = "  serving", !.pc = "sendServing"]
      [] c.pc = "sendNotFound" -> [c EXCEPT !.code = StatusNotFound, !.pc = "done"]
      [] c.pc = "sendServing" -> [c EXCEPT !.pc = "mkdirACI"]
      [] OTHER -> [c EXCEPT !.pc = "done"]

afterSend(c) ==
    CASE c.pc = "sendTrying" ->
           IF Base(c.path) = sProgAci
           THEN [c EXCEPT !.msg = "  serving", !.pc = "sendServing"]
           ELSE [c EXCEPT !.msg = "  not found.", !.pc = "sendNotFound"]
      [] c.pc = "sendNotFound" -> [c EXCEPT !.code = StatusNotFound, !.pc = "done"]
      [] c.pc = "sendServing" -> [c EXCEPT !.pc = "mkdirACI"]
      [] OTHER -> [c EXCEPT !.pc = "done"]

(***************************************************************************)
(* prepareACI.  Each file-system or external-tool step either succeeds or  *)
(* fails; a failure the environment causes is recorded in fault.           *)
(***************************************************************************)
\* a variant that writes the error text into the response body
retErrInBody(c) ==
    IF c.err /= ""
    THEN [c EXCEPT !.code = StatusInternalServerError, !.body = <<c.err>>,
                   !.msg = "    failed (" \o c.err \o ")", !.pc = "sendFailed"]
    ELSE [c EXCEPT !.code = StatusOK, !.body = c.data,
                   !.msg = "    done.", !.pc = "sendDone"]

\* the return of prepareACI into ServeHTTP: status and final diagnostic
ret(c) ==
    IF c.err /= ""
    THEN [c EXCEPT !.code = StatusInternalServerError,
                   !.msg = "    failed (" \o c.err \o ")", !.pc = "sendFailed"]
    ELSE [c EXCEPT !.code = StatusOK, !.body = c.data,
                   !.msg = "    done.", !.pc = "sendDone"]

\* leaving prepareACI: the deferred calls registered so far run, last first
leave(c) ==
    IF c.fn /= "" THEN [c EXCEPT !.pc = "deferRemove"]
    ELSE IF c.dir /= "" THEN [c EXCEPT !.pc = "deferRemoveAll"]
    ELSE ret(c)

Step(r, c, f) ==
    /\ conn' = [conn EXCEPT ![r] = c]
    /\ fs' = f
    /\ UNCHANGED <<auth, mainPc, listener, closeCount, stopRecv, stdout, exitCode>>

\* a variant with os.MkdirAll, which succeeds when the directory exists
MkdirAllACI(r) ==
    /\ conn[r].pc = "mkdirACI"
    /\ \E envOk \in BOOLEAN :
          IF envOk
          THEN Step(r, [conn[r] EXCEPT !.pc = "mkdirRootfs"], WithFile(fs, aciDir, "dir"))
          ELSE Step(r, leave([conn[r] EXCEPT !.dir = "", !.fault = ~envOk,
                                 !.err = "failed to build ACI tree: failed to create ACI directory"]),
                    fs)
    /\ UNCHANGED clock

\* createTree: os.Mkdir(aciDir), which also fails when the directory exists
MkdirACI(r) ==
    /\ conn[r].pc = "mkdirACI"
    /\ \E envOk \in BOOLEAN :
          IF envOk /\ ~Exists(aciDir)
          THEN Step(r, [conn[r] EXCEPT !.pc = "mkdirRootfs"], WithFile(fs, aciDir, "dir"))
          ELSE Step(r, leave([conn[r] EXCEPT !.dir = "", !.fault = ~envOk,
                                 !.err = "failed to build ACI tree: failed to create ACI directory"]),
                    fs)
    /\ UNCHANGED clock

\* createTree: os.Mkdir(rootDir); on failure createTree returns aciDir
MkdirRootfs(r) ==
    /\ conn[r].pc = "mkdirRootfs"
    /\ \E envOk \in BOOLEAN :
          IF envOk /\ ~Exists(rootDir) /\ Exists(aciDir)
          THEN Step(r, [conn[r] EXCEPT !.pc = "writeManifest"], WithFile(fs, rootDir, "dir"))
          ELSE Step(r, leave([conn[r] EXCEPT !.dir = aciDir, !.fault = ~envOk,
                                 !.err = "failed to build ACI tree: failed to create rootfs directory"]),
                    fs)
    /\ UNCHANGED clock

\* createTree: write the manifest; on failure createTree returns ""
WriteManifest(r) ==
    /\ conn[r].pc = "writeManifest"
    /\ \E envOk \in BOOLEAN :
          IF envOk /\ Exists(aciDir)
          THEN Step(r, [conn[r] EXCEPT !.pc = "writeSrc"], WithFile(fs, manifestFile, "manifestStr"))
          ELSE Step(r, leave([conn[r] EXCEPT !.dir = "", !.fault = ~envOk,
                                 !.err = "failed to build ACI tree: failed to write manifest"]),
                    fs)
    /\ UNCHANGED clock

\* createTree: write the program source; on failure createTree returns "",
\* on success aciDir, and prepareACI defers os.RemoveAll(dir)
WriteSrc(r) ==
    /\ conn[r].pc = "writeSrc"
    /\ \E envOk \in BOOLEAN :
          IF envOk /\ Exists(rootDir)
          THEN Step(r, [conn[r] EXCEPT !.dir = aciDir, !.pc = "buildProg"],
                    WithFile(fs, srcFile, "testProgSrcStr"))
          ELSE Step(r, leave([conn[r] EXCEPT !.dir = "", !.fault = ~envOk,
                                 !.err = "failed to build ACI tree: failed to write go source"]),
                    fs)
    /\ UNCHANGED clock

\* buildProg: find and run the compiler in ACI/rootfs
BuildProg(r) ==
    /\ conn[r].pc = "buildProg"
    /\ \E envOk \in BOOLEAN :
          IF envOk /\ Exists(srcFile)
          THEN Step(r, [conn[r] EXCEPT !.pc = "writeStamp"], WithFile(fs, progFile, "prog"))
          ELSE Step(r, leave([conn[r] EXCEPT !.fault = ~envOk,
                                 !.err = "failed to build test program"]),
                    fs)
    /\ UNCHANGED clock

\* buildACI: find actool, take the time, write the stamp
WriteStamp(r) ==
    /\ conn[r].pc = "writeStamp"
    /\ clock' = clock + 1
    /\ \E envOk \in BOOLEAN :
          IF envOk /\ Exists(rootDir)
          THEN Step(r, [conn[r] EXCEPT !.pc = "actool"], WithFile(fs, stampFile, clock'))
          ELSE Step(r, leave([conn[r] EXCEPT !.fault = ~envOk,
                                 !.err = "failed to build ACI: failed to write a stamp"]),
                    fs)

\* buildACI: run actool build ACI prog-build.aci; on success prepareACI
\* defers os.Remove(fn)
Actool(r) ==
    /\ conn[r].pc = "actool"
    /\ \E envOk \in BOOLEAN :
          IF envOk /\ Exists(manifestFile) /\ Exists(stampFile)
          THEN Step(r, [conn[r] EXCEPT !.fn = fnACI, !.pc = "readFile"],
                    WithFile(fs, fnACI, <<"aci", fs[stampFile]>>))
          ELSE Step(r, leave([conn[r] EXCEPT !.fault = ~envOk,
                                 !.err = "failed to build ACI: failed to execute actool build"]),
                    fs)
    /\ UNCHANGED clock

\* ioutil.ReadFile(fn)
ReadFile(r) ==
    /\ conn[r].pc = "readFile"
    /\ \E envOk \in BOOLEAN :
          IF envOk /\ Exists(fnACI)
          THEN Step(r, leave([conn[r] EXCEPT !.data = fs[fnACI]]), fs)
          ELSE Step(r, leave([conn[r] EXCEPT !.fault = ~envOk,
                                 !.err = "failed to read ACI to memory"]),
                    fs)
    /\ UNCHANGED clock

\* deferred os.Remove(fn)
DeferRemove(r) ==
    /\ conn[r].pc = "deferRemove"
    /\ Step(r, leave([conn[r] EXCEPT !.fn = ""]), Without(fs, {conn[r].fn}))
    /\ UNCHANGED clock

\* deferred os.RemoveAll(dir)
DeferRemoveAll(r) ==
    /\ conn[r].pc = "deferRemoveAll"
    /\ Step(r, leave([conn[r] EXCEPT !.dir = ""]), Without(fs, TreePaths))
    /\ UNCHANGED clock

(***************************************************************************)
(* startServer and loop: the main goroutine.                               *)
(***************************************************************************)
Line(r, t) == [req |-> r, text |-> t]

\* the address httptest chose for the server
tsHost == "127.0.0.1:port"
tsURL == "https://" \o tsHost

\* a variant of printCreds that prints a fixed type whatever the mode
printCredsFixedType(host, a, creds) ==
    <<Line(0, "{\"rktKind\": \"auth\", \"rktVersion\": \"v1\", \"domains\": [\"" \o host
              \o "\"], \"type\": \"basic\", \"credentials\": {" \o creds \o "}}")>>

\* printCreds: the configuration document, as Printf fills its template
\* (white space left out)
printCreds(host, a, creds) ==
    <<Line(0, "{\"rktKind\": \"auth\", \"rktVersion\": \"v1\", \"domains\": [\"" \o host
              \o "\"], \"type\": \"" \o a \o "\", \"credentials\": {" \o creds \o "}}")>>

\* the switch on the mode in startServer: nothing is printed for none
startupConf(mode) ==
    CASE mode = "none" -> <<>>
      [] mode = "basic" -> printCreds(tsHost, mode, "\"user\": \"bar\", \"password\": \"baz\"")
      [] mode = "oauth" -> printCreds(tsHost, mode, "\"token\": \"sometoken\"")

ReadyLine == Line(0, "Ready, waiting for connections at " \o tsURL)

Startup ==
    /\ mainPc = "print"
    /\ stdout' = stdout \o startupConf(auth) \o <<ReadyLine>>
    /\ mainPc' = "loop"
    /\ UNCHANGED <<auth, conn, listener, closeCount, stopRecv, fs, clock, exitCode>>

\* a variant of the message case that prints the line it received twice
LoopRecvMsgTwice(r) ==
    /\ mainPc = "loop"
    /\ conn[r].pc \in MsgSendPcs
    /\ stdout' = stdout \o <<Line(r, conn[r].msg), Line(r, conn[r].msg)>>
    /\ conn' = [conn EXCEPT ![r] = afterSend(@)]
    /\ UNCHANGED <<auth, mainPc, listener, closeCount, stopRecv, fs, clock, exitCode>>

\* a variant of the message case that goes on receiving after loop returned
LoopRecvMsgAfterStop(r) ==
    /\ mainPc \in {"loop", "byebye", "close", "wait"}
    /\ conn[r].pc \in MsgSendPcs
    /\ stdout' = Append(stdout, Line(r, conn[r].msg))
    /\ conn' = [conn EXCEPT ![r] = afterSend(@)]
    /\ UNCHANGED <<auth, mainPc, listener, closeCount, stopRecv, fs, clock, exitCode>>

\* select case msg = <-msgChan: a handler blocked in a send on h.msg hands
\* its line over and goes on; the loop prints the line
LoopRecvMsg(r) ==
    /\ mainPc = "loop"
    /\ conn[r].pc \in MsgSendPcs
    /\ stdout' = Append(stdout, Line(r, conn[r].msg))
    /\ conn' = [conn EXCEPT ![r] = afterSend(@)]
    /\ UNCHANGED <<auth, mainPc, listener, closeCount, stopRecv, fs, clock, exitCode>>

\* a variant of the stop case that stays in the loop
LoopRecvStopStay(r) ==
    /\ mainPc = "loop"
    /\ conn[r].pc = "sendStop"
    /\ stopRecv' = stopRecv + 1
    /\ conn' = [conn EXCEPT ![r].pc = "done"]
    /\ UNCHANGED <<auth, mainPc, listener, closeCount, stdout, fs, clock, exitCode>>

\* a variant of the stop case over a buffered channel: the send completes
\* with no receiver
LoopRecvStopBuffered(r) ==
    /\ conn[r].pc = "sendStop"
    /\ conn' = [conn EXCEPT ![r].pc = "done"]
    /\ UNCHANGED <<auth, mainPc, listener, closeCount, stopRecv, stdout, fs, clock, exitCode>>

\* select case <-stopChan: a handler blocked in the send on h.stop goes on
\* and returns; loop returns
LoopRecvStop(r) ==
    /\ mainPc = "loop"
    /\ conn[r].pc = "sendStop"
    /\ stopRecv' = stopRecv + 1
    /\ conn' = [conn EXCEPT ![r].pc = "done"]
    /\ mainPc' = "byebye"
    /\ UNCHANGED <<auth, listener, closeCount, stdout, fs, clock, exitCode>>

\* fmt.Println("Byebye")
PrintByebye ==
    /\ mainPc = "byebye"
    /\ stdout' = Append(stdout, Line(0, "Byebye"))
    /\ mainPc' = "close"
    /\ UNCHANGED <<auth, conn, listener, closeCount, stopRecv, fs, clock, exitCode>>

\* deferred ts.Close(): the listener is closed first
CloseListener ==
    /\ mainPc = "close"
    /\ listener' = FALSE
    /\ closeCount' = closeCount + 1
    /\ mainPc' = "wait"
    /\ UNCHANGED <<auth, conn, stopRecv, stdout, fs, clock, exitCode>>

\* a Close that returns without waiting for the handlers
CloseWaitNoWait ==
    /\ mainPc = "wait"
    /\ mainPc' = "exited"
    /\ exitCode' = 0
    /\ UNCHANGED <<auth, conn, listener, closeCount, stopRecv, stdout, fs, clock>>

\* ts.Close() then blocks until every outstanding request has completed;
\* startServer returns nil and main returns: exit status 0
CloseWait ==
    /\ mainPc = "wait"
    /\ \A r \in Reqs : ~InFlight(r)
    /\ mainPc' = "exited"
    /\ exitCode' = 0
    /\ UNCHANGED <<auth, conn, listener, closeCount, stopRecv, stdout, fs, clock>>

(***************************************************************************)
(* Specifications.                                                         *)
(***************************************************************************)
Handler(r) ==
    \/ MkdirACI(r)
    \/ MkdirRootfs(r)
    \/ WriteManifest(r)
    \/ WriteSrc(r)
    \/ BuildProg(r)
    \/ WriteStamp(r)
    \/ Actool(r)
    \/ ReadFile(r)
    \/ DeferRemove(r)
    \/ DeferRemoveAll(r)

Main ==
    \/ Startup
    \/ PrintByebye
    \/ CloseListener
    \/ CloseWait

Next ==
    \/ \E r \in Reqs : ServeHTTP(r, Inputs)
    \/ \E r \in Reqs : Handler(r)
    \/ \E r \in Reqs : LoopRecvMsg(r)
    \/ \E r \in Reqs : LoopRecvStop(r)
    \/ Main

Spec == Init /\ [][Next]_vars

\* one request, with the credential inputs drawn from the generated headers
NextAuth ==
    \/ ServeHTTP(1, AuthInputs)
    \/ Handler(1)
    \/ LoopRecvMsg(1)
    \/ LoopRecvStop(1)
    \/ Main

SpecAuth == Init /\ [][NextAuth]_vars

\* the scheduling of goroutines and of select: a step that stays possible is
\* eventually taken; requests arrive or not as the clients choose
Fairness ==
    /\ \A r \in Reqs : WF_vars(Handler(r))
    /\ \A r \in Reqs : SF_vars(LoopRecvMsg(r))
    /\ \A r \in Reqs : SF_vars(LoopRecvStop(r))
    /\ WF_vars(Main)

FairSpec == Spec /\ Fairness

(***************************************************************************)
(* Vocabulary of the properties.                                           *)
(***************************************************************************)
Done(r) == conn[r].pc = "done"
Arrived(r) == conn[r].pc /= "idle"
IsGET(r) == Arrived(r) /\ conn[r].method = "GET"
IsPOST(r) == Arrived(r) /\ conn[r].method = "POST"
\* the diagnostic lines of request r, in the order printed
LinesOf(r) ==
    LET own == SelectSeq(stdout, LAMBDA l : l.req = r)
    IN  [i \in 1..Len(own) |-> own[i].text]
Printed(t) == \E i \in 1..Len(stdout) : stdout[i] = Line(0, t)
LoopState == IF mainPc \in {"print", "loop"} THEN "Running" ELSE "Stopped"
\* the rejection status of a request, 0 when its credentials were accepted
Verdict(r) ==
    IF conn[r].code \in {StatusBadRequest, StatusUnauthorized} THEN conn[r].code ELSE 0
\* prepareACI was called for request r
Built(r) ==
    \/ conn[r].pc \in BuildPcs \cup {"sendFailed", "sendDone"}
    \/ conn[r].err /= ""
    \/ conn[r].data /= <<>>
    \/ conn[r].body /= <<>>
ProgPath(r) == Base(conn[r].path) = sProgAci

\* The credential rules, read off the header alone.
Tok(h) == Split(h, " ")
\* the text before the first space, and the text after it
Scheme(h) == Tok(h)[1]
RestAfterScheme(h) == Join(Tail(Tok(h)), " ")
CredsOK(payload) ==
    LET d == DecodeString(payload)
    IN  d.ok /\ Split(d.out, ":") = <<sBar, sBaz>>

\* Basic, as the amended C6 states it
BasicRule(h) ==
    IF h = <<>> THEN StatusUnauthorized
    ELSE IF Len(Tok(h)) /= 2 THEN StatusBadRequest
    ELSE IF Tok(h)[1] /= sBasic THEN StatusUnauthorized
    ELSE IF ~DecodeString(Tok(h)[2]).ok THEN StatusBadRequest
    ELSE IF Len(Split(DecodeString(Tok(h)[2]).out, ":")) /= 2 THEN StatusBadRequest
    ELSE IF ~CredsOK(Tok(h)[2]) THEN StatusUnauthorized
    ELSE 0

\* Basic, as C6 states it: scheme, then payload
BasicRuleOriginal(h) ==
    IF h = <<>> THEN StatusUnauthorized
    ELSE IF Scheme(h) /= sBasic THEN StatusUnauthorized
    ELSE IF ~DecodeString(RestAfterScheme(h)).ok THEN StatusBadRequest
    ELSE IF Len(Split(DecodeString(RestAfterScheme(h)).out, ":")) /= 2 THEN StatusBadRequest
    ELSE IF ~CredsOK(RestAfterScheme(h)) THEN StatusUnauthorized
    ELSE 0

\* OAuth, as C7 states it
OAuthRule(h) ==
    IF h = <<>> THEN StatusUnauthorized
    ELSE IF Len(Tok(h)) /= 2 THEN StatusBadRequest
    ELSE IF Tok(h)[1] /= sBearer THEN StatusUnauthorized
    ELSE IF Tok(h)[2] /= sSometoken THEN StatusUnauthorized
    ELSE 0

ModeRule(mode, h) ==
    CASE mode = "basic" -> BasicRule(h)
      [] mode = "oauth" -> OAuthRule(h)
      [] OTHER -> 0

(***************************************************************************)
(* C1 - original statement: every POST, under any interleaving with other  *)
(* requests (other POSTs included), eventually completes with status 200   *)
(* and the control loop eventually leaves Running for Stopped.             *)
(* Checked under FairSpec; it fails when two POSTs are in flight.          *)
(***************************************************************************)
C1_EveryPostCompletes ==
    \A r \in Reqs :
        IsPOST(r) ~> (Done(r) /\ conn[r].code = StatusOK /\ LoopState = "Stopped")

(***************************************************************************)
(* C2 - the shutdown signal is received from the stop channel at most once *)
(* and every completed send of it was received (one completed POST per     *)
(* receive); the listener is closed at most once, only after the receive;  *)
(* and a run that has exited has closed it.                                *)
(***************************************************************************)
C2_ShutdownOnce ==
    /\ stopRecv <= 1
    /\ Cardinality({r \in Reqs : IsPOST(r) /\ Done(r)}) = stopRecv
    /\ closeCount <= 1
    /\ closeCount = 1 => stopRecv = 1
    /\ listener <=> closeCount = 0
    /\ mainPc = "exited" => (~listener /\ closeCount = 1 /\ stopRecv = 1)

C2_Witness ==
    /\ mainPc = "exited"
    /\ closeCount = 1
    /\ \E r \in Reqs : IsPOST(r) /\ Done(r)

(***************************************************************************)
(* C3 - original statement: once the shutdown signal has been consumed the *)
(* process eventually prints the farewell, finishes stopping the server    *)
(* and exits 0, whatever GET handlers are in flight at that moment.        *)
(* Checked under FairSpec; it fails when a GET handler still has a         *)
(* diagnostic to send.                                                     *)
(***************************************************************************)
C3_ExitsAfterPost ==
    (stopRecv > 0) ~> (Printed("Byebye") /\ mainPc = "exited" /\ exitCode = 0)

(***************************************************************************)
(* C4 - original statement (the status part): when GETs for prog.aci with  *)
(* valid credentials are handled concurrently and no file-system or tool   *)
(* step fails on its own, every one of them is answered 200.               *)
(***************************************************************************)
C4_ConcurrentGetsAll200 ==
    (\A q \in Reqs : ~conn[q].fault) =>
        \A r \in Reqs :
            (IsGET(r) /\ Done(r) /\ ModeRule(auth, conn[r].hdr) = 0 /\ ProgPath(r))
                => conn[r].code = StatusOK

(***************************************************************************)
(* C5 - amended: a completed GET has printed exactly one line when it was  *)
(* rejected; an accepted GET has first printed "Trying to serve", and then *)
(* for prog.aci "serving" followed by "done" (status 200) or "failed"      *)
(* (status 500), three lines in all, and for any other path "not found",   *)
(* two lines in all.                                                       *)
(***************************************************************************)
IsFailedLine(t, e) == t = "    failed (" \o e \o ")"

C5_LinesPerGet ==
    \A r \in Reqs :
        (IsGET(r) /\ Done(r)) =>
            LET ls == LinesOf(r)
            IN  IF Verdict(r) /= 0
                THEN ls = <<conn[r].msg>> /\ conn[r].msg /= "Trying to serve"
                ELSE IF ProgPath(r)
                THEN /\ Len(ls) = 3
                     /\ ls[1] = "Trying to serve"
                     /\ ls[2] = "  serving"
                     /\ \/ ls[3] = "    done." /\ conn[r].code = StatusOK
                        \/ IsFailedLine(ls[3], conn[r].err) /\ conn[r].err /= ""
                              /\ conn[r].code = StatusInternalServerError
                ELSE ls = <<"Trying to serve", "  not found.">>

C5_Witness ==
    \E r \in Reqs :
        /\ IsGET(r) /\ Done(r) /\ ProgPath(r)
        /\ LinesOf(r) = <<"Trying to serve", "  serving", "    done.">>

\* C5 - original statement: one line per completed GET, two ("serving", then
\* "done" or "failed") for an accepted GET of prog.aci
C5_OneOrTwoLines ==
    \A r \in Reqs :
        (IsGET(r) /\ Done(r)) =>
            LET ls == LinesOf(r)
            IN  IF Verdict(r) = 0 /\ ProgPath(r)
                THEN /\ Len(ls) = 2
                     /\ ls[1] = "  serving"
                     /\ (ls[2] = "    done." \/ IsFailedLine(ls[2], conn[r].err))
                ELSE Len(ls) = 1

(***************************************************************************)
(* C6 - amended: in mode basic a GET is rejected 401 when the header is    *)
(* absent, 400 when the header is not exactly two space-separated tokens,  *)
(* 401 when the first token is not Basic, 400 when the second is not valid *)
(* base64, 400 when the decoded text does not split on ':' into exactly    *)
(* two fields, 401 when the fields are not "bar" and "baz"; it is accepted *)
(* in exactly the remaining case.                                          *)
(***************************************************************************)
C6_BasicRules ==
    \A r \in Reqs :
        (auth = "basic" /\ IsGET(r)) => Verdict(r) = BasicRule(conn[r].hdr)

\* a header of one token that is not Basic is answered 400
C6_Witness ==
    \E r \in Reqs :
        /\ auth = "basic" /\ IsGET(r)
        /\ conn[r].hdr = sBearer
        /\ conn[r].code = StatusBadRequest

\* C6 - original statement: the scheme is judged before the shape of the header
C6_BasicRulesOriginal ==
    \A r \in Reqs :
        (auth = "basic" /\ IsGET(r)) => Verdict(r) = BasicRuleOriginal(conn[r].hdr)

(***************************************************************************)
(* C7 - in mode oauth a GET is rejected 401 when the header is absent, 400 *)
(* when it is not exactly two space-separated tokens, 401 when the first   *)
(* token is not Bearer, 401 when the second is not "sometoken"; it is      *)
(* accepted exactly when the header is "Bearer sometoken".                 *)
(***************************************************************************)
C7_OAuthRules ==
    \A r \in Reqs :
        (auth = "oauth" /\ IsGET(r)) =>
            /\ Verdict(r) = OAuthRule(conn[r].hdr)
            /\ Verdict(r) = 0 <=> conn[r].hdr = hdrBearerOK

C7_Witness ==
    \E r \in Reqs :
        /\ auth = "oauth" /\ IsGET(r) /\ Done(r)
        /\ conn[r].hdr = hdrBearerOK
        /\ Verdict(r) = 0

(***************************************************************************)
(* C8 - amended: in mode none no GET is rejected with 400 or 401 whatever  *)
(* its header; a completed GET whose final path segment is prog.aci is     *)
(* answered 200 when the build succeeded and 500 when it failed, and a     *)
(* completed GET to any other path is answered 404.                        *)
(***************************************************************************)
C8_NoneMode ==
    \A r \in Reqs :
        (auth = "none" /\ IsGET(r)) =>
            /\ Verdict(r) = 0
            /\ Done(r) =>
                 IF ProgPath(r)
                 THEN \/ conn[r].code = StatusOK /\ conn[r].err = ""
                      \/ conn[r].code = StatusInternalServerError /\ conn[r].err /= ""
                 ELSE conn[r].code = StatusNotFound

\* a GET with a header that the other modes would reject, served in mode none
C8_Witness ==
    \E r \in Reqs :
        /\ auth = "none" /\ IsGET(r) /\ Done(r) /\ ProgPath(r)
        /\ conn[r].hdr = sBearer
        /\ conn[r].code = StatusOK

\* C8 - original statement: prog.aci is always answered 200
C8_NoneModeOriginal ==
    \A r \in Reqs :
        (auth = "none" /\ IsGET(r)) =>
            /\ Verdict(r) = 0
            /\ Done(r) =>
                 IF ProgPath(r) THEN conn[r].code = StatusOK
                 ELSE conn[r].code = StatusNotFound

(***************************************************************************)
(* C9 - prepareACI is called, and artifact bytes are written, only for a   *)
(* GET whose credentials the configured mode accepts and whose final path  *)
(* segment is prog.aci.                                                    *)
(***************************************************************************)
C9_BuildOnlyForAcceptedProgGet ==
    \A r \in Reqs :
        Built(r) =>
            /\ conn[r].method = "GET"
            /\ ModeRule(auth, conn[r].hdr) = 0
            /\ ProgPath(r)

C9_Witness ==
    \E r \in Reqs :
        /\ Built(r) /\ Done(r)
        /\ conn[r].body /= <<>>
        /\ auth = "basic"

(***************************************************************************)
(* C10 - original statement: whenever a call of prepareACI returns, on any *)
(* exit path, neither the ACI directory nor prog-build.aci exists.         *)
(***************************************************************************)
C10_NoResidue ==
    [][\A r \in Reqs :
          (conn[r].pc \in BuildPcs /\ conn'[r].pc \notin BuildPcs)
              => (aciDir \notin DOMAIN fs' /\ fnACI \notin DOMAIN fs')]_vars

\* the positions in stdout of the lines of request r
PosOf(r) == {i \in 1..Len(stdout) : stdout[i].req = r}
\* the build of q was over before r printed its first line
BuildBefore(q, r) ==
    /\ Done(q)
    /\ PosOf(q) /= {} /\ PosOf(r) /= {}
    /\ \A i \in PosOf(q), j \in PosOf(r) : i < j

(***************************************************************************)
(* C11 - original statement: request-level errors are contained.  While no *)
(* shutdown signal has been received the control loop is Running whatever  *)
(* requests have failed, and a GET for prog.aci with valid credentials     *)
(* that is handled after the earlier requests that reached the build have  *)
(* finished, and in whose own build no step fails in the environment, is   *)
(* answered 200.                                                           *)
(***************************************************************************)
C11_ErrorsContained ==
    /\ stopRecv = 0 => LoopState = "Running"
    /\ \A r \in Reqs :
          ( /\ IsGET(r) /\ Done(r) /\ ProgPath(r)
            /\ ModeRule(auth, conn[r].hdr) = 0
            /\ ~conn[r].fault
            /\ \A q \in Reqs \ {r} : Built(q) => BuildBefore(q, r) )
              => conn[r].code = StatusOK

(***************************************************************************)
(* C12 - a completed credential-accepted GET whose final path segment is   *)
(* prog.aci carries, when the build succeeded, status 200 and exactly the  *)
(* bytes prepareACI returned (the packaged file with its stamp); when the  *)
(* build failed, status 500 and an empty body, the error text being in its *)
(* last diagnostic line only; for any other final segment it carries 404   *)
(* and an empty body.                                                      *)
(***************************************************************************)
C12_AcceptedGetResponse ==
    \A r \in Reqs :
        (IsGET(r) /\ Done(r) /\ Verdict(r) = 0) =>
            LET ls == LinesOf(r)
            IN  IF ~ProgPath(r)
                THEN conn[r].code = StatusNotFound /\ conn[r].body = <<>>
                ELSE IF conn[r].err = ""
                THEN /\ conn[r].code = StatusOK
                     /\ conn[r].body = conn[r].data
                     /\ Len(conn[r].body) = 2
                     /\ conn[r].body[1] = "aci"
                     /\ conn[r].body[2] \in 1..clock
                ELSE /\ conn[r].code = StatusInternalServerError
                     /\ conn[r].body = <<>>
                     /\ IsFailedLine(ls[Len(ls)], conn[r].err)

C12_Witness ==
    \E r \in Reqs :
        /\ IsGET(r) /\ Done(r) /\ ProgPath(r)
        /\ conn[r].code = StatusInternalServerError
        /\ conn[r].err = "failed to build ACI: failed to execute actool build"
        /\ conn[r].body = <<>>

(***************************************************************************)
(* C13 - a POST, whatever the mode, its path and its header, is answered   *)
(* 200, prints no diagnostic, runs no credential check or build, touches   *)
(* no file, and does nothing but send on the stop channel: it is blocked   *)
(* in that send or has completed it, and then the signal was received.     *)
(***************************************************************************)
C13_PostOnlySignals ==
    \A r \in Reqs :
        IsPOST(r) =>
            /\ conn[r].code = StatusOK
            /\ conn[r].pc \in {"sendStop", "done"}
            /\ LinesOf(r) = <<>>
            /\ conn[r].msg = "" /\ conn[r].body = <<>> /\ ~Built(r)
            /\ Done(r) => stopRecv = 1
            /\ (\A q \in Reqs \ {r} : ~Arrived(q)) =>
                   (fs = <<>> /\ \A i \in 1..Len(stdout) : stdout[i].req = 0)

\* a POST whose header mode basic would reject with 400
C13_Witness ==
    \E r \in Reqs :
        /\ IsPOST(r) /\ Done(r)
        /\ auth = "basic"
        /\ conn[r].hdr = sNotB64
        /\ conn[r].path = <<"/">>

(***************************************************************************)
(* C14 - a request whose method is neither GET nor POST is answered 405    *)
(* and has no other effect: it has completed as soon as it is handled      *)
(* (it never waits for the control loop), prints no diagnostic, runs no    *)
(* credential check or build and sends no shutdown signal.                 *)
(***************************************************************************)
C14_OtherMethod405 ==
    \A r \in Reqs :
        (Arrived(r) /\ conn[r].method \notin {"GET", "POST"}) =>
            /\ Done(r)
            /\ conn[r].code = StatusMethodNotAllowed
            /\ LinesOf(r) = <<>>
            /\ conn[r].msg = "" /\ conn[r].body = <<>> /\ ~Built(r)
            /\ stopRecv = Cardinality({q \in Reqs : IsPOST(q) /\ Done(q)})

\* a PUT completed before the control loop was even entered
C14_Witness ==
    \E r \in Reqs :
        /\ conn[r].method = "PUT" /\ Done(r)
        /\ conn[r].hdr = hdrBasicOK
        /\ mainPc = "print"

(***************************************************************************)
(* C15 - the lines on standard output are exactly the diagnostic sends     *)
(* that completed: for every request, the lines printed for it are the     *)
(* messages its handler has sent so far, in the order it sent them, none   *)
(* lost and none twice; every other line is one the main goroutine printed *)
(* itself (configuration, Ready, Byebye).                                  *)
(***************************************************************************)
\* the messages the handler of r has sent so far, read off its position
SentBy(r) ==
    LET c == conn[r]
        trying == <<"Trying to serve">>
        served == <<"Trying to serve", "  serving">>
    IN  CASE c.pc \in {"idle", "sendReject", "sendTrying", "sendStop"} -> <<>>
          [] c.pc \in {"sendServing", "sendNotFound"} -> trying
          [] c.pc \in BuildPcs \cup {"sendFailed", "sendDone"} -> served
          [] OTHER ->
               IF c.method /= "GET" THEN <<>>
               ELSE IF Verdict(r) /= 0 THEN <<c.msg>>
               ELSE IF c.code = StatusNotFound THEN Append(trying, "  not found.")
               ELSE Append(served, c.msg)

\* the lines the main goroutine has printed itself
MainLines ==
    (IF mainPc = "print" THEN <<>>
     ELSE startupConf(auth) \o <<ReadyLine>>)
    \o (IF mainPc \in {"close", "wait", "exited"} THEN <<Line(0, "Byebye")>> ELSE <<>>)

C15_PrintedAreSent ==
    /\ \A r \in Reqs : LinesOf(r) = SentBy(r)
    /\ \A i \in 1..Len(stdout) : stdout[i].req \in Reqs \cup {0}
    /\ SelectSeq(stdout, LAMBDA l : l.req = 0) = MainLines

\* the lines of two concurrent requests interleaved
C15_Witness ==
    \E i, j, k \in 1..Len(stdout) :
        /\ i < j /\ j < k
        /\ stdout[i].req = 1 /\ stdout[j].req = 2 /\ stdout[k].req = 1
        /\ Done(1) /\ Done(2)

(***************************************************************************)
(* C16 - every send of a handler is a rendezvous with the control loop: a  *)
(* completed GET has had each of its lines received and printed (one for a *)
(* rejection, two for an unknown path, three for a build), and a completed *)
(* POST has had its stop signal received, so the loop has left Running.    *)
(***************************************************************************)
NSends(r) ==
    IF Verdict(r) /= 0 THEN 1 ELSE IF ProgPath(r) THEN 3 ELSE 2

C16_CompletedMeansReceived ==
    \A r \in Reqs :
        /\ (IsGET(r) /\ Done(r)) =>
              /\ Len(LinesOf(r)) = NSends(r)
              /\ mainPc /= "print"
        /\ (IsPOST(r) /\ Done(r)) =>
              /\ stopRecv = 1
              /\ LoopState = "Stopped"

\* a completed build and a completed shutdown request side by side
C16_Witness ==
    \E r, q \in Reqs :
        /\ IsGET(r) /\ Done(r) /\ Len(LinesOf(r)) = 3
        /\ IsPOST(q) /\ Done(q)

(***************************************************************************)
(* C17 - the control loop starts Running; receiving a diagnostic prints it *)
(* and stays Running; the only step to Stopped is the receipt of the stop  *)
(* signal of a POST, and that receipt always stops the loop; once Stopped  *)
(* the loop stays Stopped and no diagnostic is printed any more, the only  *)
(* line still printed being Byebye; the process exits only after Byebye    *)
(* was printed and the server was stopped once.                            *)
(***************************************************************************)
C17_Step ==
    /\ LoopState = "Stopped" =>
          /\ LoopState' = "Stopped"
          /\ \A r \in Reqs : LinesOf(r)' = LinesOf(r)
          /\ stdout' /= stdout => stdout' = Append(stdout, Line(0, "Byebye"))
    /\ (LoopState = "Running" /\ LoopState' = "Stopped") =>
          /\ stopRecv' = stopRecv + 1
          /\ \E r \in Reqs : IsPOST(r) /\ conn[r].pc = "sendStop" /\ conn'[r].pc = "done"
    /\ stopRecv' /= stopRecv => LoopState' = "Stopped"
    /\ (mainPc = "loop" /\ stdout' /= stdout) =>
          /\ LoopState' = "Running"
          /\ \E r \in Reqs : /\ conn[r].pc \in MsgSendPcs
                             /\ stdout' = Append(stdout, Line(r, conn[r].msg))

C17_ControlLoop ==
    /\ LoopState = "Running"
    /\ [][C17_Step]_vars
    /\ [](LoopState \in {"Running", "Stopped"})
    /\ [](mainPc \in {"wait", "exited"} =>
              (Printed("Byebye") /\ closeCount = 1 /\ ~listener))

\* the loop has stopped while a handler is still blocked in a diagnostic send
C17_Witness ==
    /\ mainPc = "wait"
    /\ Printed("Byebye")
    /\ \E r \in Reqs : conn[r].pc \in MsgSendPcs

(***************************************************************************)
(* C18 - once startup is over, in modes basic and oauth the first line of  *)
(* standard output is the configuration document (rktKind auth, rktVersion *)
(* v1, domains holding the server's host:port, type the mode, credentials  *)
(* user bar / password baz or token sometoken) and the second is the Ready *)
(* line with the server's URL; in mode none no document is printed at all  *)
(* and the Ready line is the first line.                                   *)
(***************************************************************************)
DocBasic ==
    "{\"rktKind\": \"auth\", \"rktVersion\": \"v1\", \"domains\": [\"127.0.0.1:port\"], \"type\": \"basic\", \"credentials\": {\"user\": \"bar\", \"password\": \"baz\"}}"
DocOAuth ==
    "{\"rktKind\": \"auth\", \"rktVersion\": \"v1\", \"domains\": [\"127.0.0.1:port\"], \"type\": \"oauth\", \"credentials\": {\"token\": \"sometoken\"}}"
\* the document the original statement expects in mode none: no credentials
DocNone ==
    "{\"rktKind\": \"auth\", \"rktVersion\": \"v1\", \"domains\": [\"127.0.0.1:port\"], \"type\": \"none\"}"
ReadyText == "Ready, waiting for connections at https://127.0.0.1:port"
C18_StartupOutput ==
    mainPc /= "print" =>
        CASE auth = "basic" ->
               /\ Len(stdout) >= 2
               /\ stdout[1] = Line(0, DocBasic) /\ stdout[2] = Line(0, ReadyText)
          [] auth = "oauth" ->
               /\ Len(stdout) >= 2
               /\ stdout[1] = Line(0, DocOAuth) /\ stdout[2] = Line(0, ReadyText)
          [] auth = "none" ->
               /\ Len(stdout) >= 1
               /\ stdout[1] = Line(0, ReadyText)
               /\ \A i \in 1..Len(stdout) : stdout[i].text \notin {DocBasic, DocOAuth, DocNone}

C18_Witness ==
    /\ auth = "oauth" /\ mainPc = "loop"
    /\ stdout = <<Line(0, DocOAuth), Line(0, ReadyText)>>

\* C18 - original statement: in every mode, none included, the document
\* comes first and the Ready line second
C18_StartupOutputOriginal ==
    mainPc /= "print" =>
        /\ Len(stdout) >= 2
        /\ stdout[1] = Line(0, CASE auth = "basic" -> DocBasic
                                 [] auth = "oauth" -> DocOAuth
                                 [] auth = "none" -> DocNone)
        /\ stdout[2] = Line(0, ReadyText)

(***************************************************************************)
(* C19 - the ACI directory excludes concurrent builds: at any time at most *)
(* one call of prepareACI is past a successful creation of the directory   *)
(* and not yet returned, and while there is one the directory exists; a    *)
(* call that reaches the creation while the directory exists fails there,  *)
(* its request being answered 500, and changes no file; the files change   *)
(* only in steps of the call that created the directory.                   *)
(***************************************************************************)
\* the calls of prepareACI that created the directory and have not returned
Owners == {r \in Reqs : conn[r].pc \in BuildPcs \ {"mkdirACI"}}

C19_Step ==
    /\ \A q \in Reqs :
          ( /\ conn[q].pc = "mkdirACI"
            /\ Exists(aciDir)
            /\ conn'[q] /= conn[q] ) =>
              /\ conn'[q].pc = "sendFailed"
              /\ conn'[q].code = StatusInternalServerError
              /\ conn'[q].err = "failed to build ACI tree: failed to create ACI directory"
              /\ fs' = fs
    /\ (fs' /= fs /\ Owners /= {}) =>
          \E r \in Owners : conn'[r] /= conn[r]

C19_ExclusionToken ==
    /\ [](Cardinality(Owners) <= 1)
    /\ [](Owners /= {} => Exists(aciDir))
    /\ [](\A r \in Owners : conn[r].pc \in {"readFile", "deferRemove"} => Exists(fnACI))
    /\ [][C19_Step]_vars

\* one build under way, and a second request that met the directory and
\* failed with nothing else going wrong
C19_Witness ==
    \E r, q \in Reqs :
        /\ conn[r].pc = "readFile"
        /\ conn[q].pc = "sendFailed"
        /\ ~conn[q].fault
        /\ conn[q].code = StatusInternalServerError
        /\ Exists(fnACI)

====
